---- MODULE Spec2Model ----
(***************************************************************************)
(* A model of "Flask Game.py": the setup interpreter fill_flasks, the      *)
(* sealing rule is_sealed, the win test is_game_won, the input checks      *)
(* check_flask_condition / check_input_validity / input_loop /             *)
(* obtain_user_input, transfer_between_flasks and the driving loop of      *)
(* main.  Flasks are BoundedStack objects and the staging buffer is a      *)
(* BoundedQueue; both classes are imported (bstack, bqueue) and modelled   *)
(* from their documented contract.                                         *)
(*                                                                         *)
(* Strings are sequences of one-character strings, so that line[0],        *)
(* line[2], isdigit(), lower() and int() are computed as Python computes   *)
(* them.  A flask is the sequence of its units, bottom first.              *)
(***************************************************************************)
EXTENDS Integers, Sequences, FiniteSets, TLC

VARIABLES
    flasks,           \* main: the list of BoundedStack objects
    chemicals_queue,  \* fill_flasks: the BoundedQueue(4)
    nlines,           \* number of setup lines consumed so far
    line,             \* fill_flasks: the line processed last
    pc,               \* position of the program
    error,            \* the exception that ended the program, or "none"
    user_input,       \* the string read last by input()
    source,           \* main: source
    destination,      \* main: destination
    transfer_status,  \* main: transfer_status: "unset" before its first assignment,
                      \* then "True" or "False"
    message,          \* what row 5 of the terminal shows
    result            \* value returned by the function called last (unit calls)

vars == <<flasks, chemicals_queue, nlines, line, pc, error, user_input,
          source, destination, transfer_status, message, result>>

----------------------------------------------------------------------------
(* Program constants *)

UNITS_PER_CHEMICAL == 3

MAX_CAPACITY == 4

QUEUE_CAPACITY == 4

(* Bounds of the model *)

\* number of flasks of a game (first integer of the data file)
NumFlasks == 2

\* number of setup lines a script may hold
MaxLines == 7

\* number of setup lines of a script over four chemicals
MaxManyLines == 6

\* number of flasks, and of units they hold together, when a function is called
\* on its own
UnitFlasks == 3

MaxUnits == 7

\* the colour table's keys; a chemical outside it cannot be displayed
AA == <<"A", "A">>

BB == <<"B", "B">>

CC == <<"C", "C">>

DD == <<"D", "D">>

Chemicals == {AA, BB}

ManyChemicals == {AA, BB, CC, DD}

----------------------------------------------------------------------------
(* Python string helpers *)

DigitChars == <<"0", "1", "2", "3", "4", "5", "6", "7", "8", "9">>

\* a one-character string c: c.isdigit()
IsDigitChar(c) == \E i \in 1..10 : DigitChars[i] = c

\* int(c) of a digit character
DigitVal(c) == (CHOOSE i \in 1..10 : DigitChars[i] = c) - 1

\* s.isdigit(): non-empty and every character a digit
IsDigit(s) == Len(s) > 0 /\ \A i \in 1..Len(s) : IsDigitChar(s[i])

\* int(s) of a string of digits
RECURSIVE IntOf(_)
IntOf(s) ==
    IF Len(s) = 0 THEN 0
    ELSE 10 * IntOf(SubSeq(s, 1, Len(s) - 1)) + DigitVal(s[Len(s)])

\* str(n) of a natural number
RECURSIVE StrOf(_)
StrOf(n) ==
    IF n < 10 THEN <<DigitChars[n + 1]>>
    ELSE StrOf(n \div 10) \o <<DigitChars[(n % 10) + 1]>>

LowerChar(c) ==
    CASE c = "E" -> "e"
      [] c = "X" -> "x"
      [] c = "I" -> "i"
      [] c = "T" -> "t"
      [] c = "Q" -> "q"
      [] OTHER -> c

\* s.lower()
Lower(s) == [i \in 1..Len(s) |-> LowerChar(s[i])]

EXIT == <<"e", "x", "i", "t">>

Reverse(s) == [i \in 1..Len(s) |-> s[Len(s) + 1 - i]]

----------------------------------------------------------------------------
(* BoundedStack and BoundedQueue: imported classes, modelled from their     *)
(* contract.  A failing operation is reported by the ok field.             *)

bstack_is_empty(flask) == Len(flask) = 0

bstack_is_full(flask) == Len(flask) = MAX_CAPACITY

bstack_size(flask) == Len(flask)

\* faulty variant of push: no capacity test
bstack_push_unchecked(flask, unit) == [ok |-> TRUE, flask |-> Append(flask, unit)]

\* push fails on a full stack and otherwise appends on top
bstack_push(flask, unit) ==
    IF Len(flask) >= MAX_CAPACITY
    THEN [ok |-> FALSE, flask |-> flask]
    ELSE [ok |-> TRUE, flask |-> Append(flask, unit)]

\* pop fails on an empty stack and otherwise removes and returns the top
bstack_pop(flask) ==
    IF Len(flask) = 0
    THEN [ok |-> FALSE, flask |-> flask, unit |-> <<>>]
    ELSE [ok |-> TRUE, flask |-> SubSeq(flask, 1, Len(flask) - 1),
          unit |-> flask[Len(flask)]]

bqueue_is_full(queue) == Len(queue) >= QUEUE_CAPACITY

bqueue_enqueue(queue, unit) == Append(queue, unit)

\* dequeue fails on an empty queue and otherwise removes and returns the front
bqueue_dequeue(queue) ==
    IF Len(queue) = 0
    THEN [ok |-> FALSE, queue |-> queue, unit |-> <<>>]
    ELSE [ok |-> TRUE, queue |-> Tail(queue), unit |-> Head(queue)]

----------------------------------------------------------------------------
(* obtain_flask_elements: drain the flask by pop, push everything back,    *)
(* return the drained list reversed.                                       *)

\* the while loop: elements_list in pop order (top first)
RECURSIVE DrainFlask(_, _)
DrainFlask(flask, elements_list) ==
    IF bstack_is_empty(flask) THEN [flask |-> flask, elements_list |-> elements_list]
    ELSE LET p == bstack_pop(flask)
         IN  DrainFlask(p.flask, Append(elements_list, p.unit))

\* the for loop: push each chemical of the list, in order
RECURSIVE RestoreFlask(_, _)
RestoreFlask(flask, chemicals) ==
    IF Len(chemicals) = 0 THEN flask
    ELSE RestoreFlask(bstack_push(flask, Head(chemicals)).flask, Tail(chemicals))

\* faulty variant of obtain_flask_elements: the flask is restored from the list
\* in pop order, "for chemical in elements_list", and ends reversed
obtain_flask_elements_no_reverse(flask) ==
    LET d == DrainFlask(flask, <<>>)
    IN  [elements |-> Reverse(d.elements_list),
         flask    |-> RestoreFlask(d.flask, d.elements_list)]

obtain_flask_elements(flask) ==
    LET d == DrainFlask(flask, <<>>)
    IN  [elements |-> Reverse(d.elements_list),
         flask    |-> RestoreFlask(d.flask, Reverse(d.elements_list))]

\* list.count(x)
Count(list, x) == Cardinality({i \in 1..Len(list) : list[i] = x})

\* faulty variant of is_sealed: "at least three" instead of "exactly three"
is_sealed_at_least_three(flask) ==
    LET o == obtain_flask_elements(flask)
    IN  IF bstack_is_empty(o.flask)
        THEN [result |-> FALSE, flask |-> o.flask]
        ELSE [result |-> /\ \A i \in 1..Len(o.elements) : o.elements[i] = o.elements[1]
                         /\ Count(o.elements, o.elements[1]) >= UNITS_PER_CHEMICAL,
              flask |-> o.flask]

(* is_sealed: result is the value returned, flask the flask as the call    *)
(* leaves it.                                                              *)
is_sealed(flask) ==
    LET o == obtain_flask_elements(flask)
        elements_list == o.elements
    IN  IF bstack_is_empty(o.flask)
        THEN [result |-> FALSE, flask |-> o.flask]
        ELSE LET comparison_chemical == elements_list[1]
                 all_same == \A i \in 1..Len(elements_list) :
                                 elements_list[i] = comparison_chemical
                 exact == Count(elements_list, comparison_chemical) = UNITS_PER_CHEMICAL
             IN  [result |-> all_same /\ exact, flask |-> o.flask]

(* is_game_won: the flasks are visited in order; the first flask that is   *)
(* neither sealed nor empty ends the loop with False.                      *)
RECURSIVE GameWonFrom(_, _)
GameWonFrom(fl, i) ==
    IF i > Len(fl) THEN [result |-> TRUE, flasks |-> fl]
    ELSE LET s == is_sealed(fl[i])
             after == [fl EXCEPT ![i] = s.flask]
         IN  IF ~s.result /\ ~bstack_is_empty(s.flask)
             THEN [result |-> FALSE, flasks |-> after]
             ELSE GameWonFrom(after, i + 1)

\* faulty variant of is_game_won: every flask must be sealed, an empty one too
is_game_won_all_sealed(fl) ==
    [result |-> \A i \in 1..Len(fl) : is_sealed(fl[i]).result, flasks |-> fl]

is_game_won(fl) == GameWonFrom(fl, 1)

----------------------------------------------------------------------------
(* fill_flasks *)

\* Python's list[idx] on a list of n items: the 1-based position, 0 for IndexError
ListIndex(idx, n) ==
    IF idx >= 0 /\ idx < n THEN idx + 1
    ELSE IF idx < 0 /\ idx >= -n THEN n + idx + 1
    ELSE 0

(* One pass of "for i in range(int(line[0]))": dequeue, then                *)
(* flasks[int(line[2])-1].push(chemical).  The exception that ends the     *)
(* pass is reported in error, with the queue and flasks as it leaves them. *)
RECURSIVE DirectiveLoop(_, _, _, _)
DirectiveLoop(count, ln, queue, fl) ==
    IF count = 0 THEN [queue |-> queue, flasks |-> fl, error |-> "none"]
    ELSE LET dq == bqueue_dequeue(queue)
         IN  IF ~dq.ok
             THEN [queue |-> queue, flasks |-> fl, error |-> "EmptyContainer"]
             ELSE IF Len(ln) < 3
             THEN [queue |-> dq.queue, flasks |-> fl, error |-> "IndexError"]
             ELSE IF ~IsDigitChar(ln[3])
             THEN [queue |-> dq.queue, flasks |-> fl, error |-> "ValueError"]
             ELSE LET pos == ListIndex(DigitVal(ln[3]) - 1, Len(fl))
                  IN  IF pos = 0
                      THEN [queue |-> dq.queue, flasks |-> fl, error |-> "IndexError"]
                      ELSE LET p == bstack_push(fl[pos], dq.unit)
                           IN  IF ~p.ok
                               THEN [queue |-> dq.queue, flasks |-> fl,
                                     error |-> "CapacityExceeded"]
                               ELSE DirectiveLoop(count - 1, ln, dq.queue,
                                                  [fl EXCEPT ![pos] = p.flask])

\* faulty variant of the line's body: flasks[int(line[2])] without the "- 1"
fill_flasks_line_no_offset(ln, queue, fl) ==
    IF Len(ln) = 0
    THEN [queue |-> queue, flasks |-> fl, error |-> "IndexError"]
    ELSE IF IsDigitChar(ln[1])
    THEN IF Len(ln) >= 3 /\ IsDigitChar(ln[3]) /\ DigitVal(ln[3]) < 9
         THEN DirectiveLoop(DigitVal(ln[1]),
                            [ln EXCEPT ![3] = DigitChars[DigitVal(ln[3]) + 2]], queue, fl)
         ELSE DirectiveLoop(DigitVal(ln[1]), ln, queue, fl)
    ELSE IF ~bqueue_is_full(queue)
    THEN [queue |-> bqueue_enqueue(queue, ln), flasks |-> fl, error |-> "none"]
    ELSE [queue |-> queue, flasks |-> fl, error |-> "none"]

\* faulty variant of the line's body: the flask index is read from the last
\* character of the line, line[-1], instead of line[2]
fill_flasks_line_last_char(ln, queue, fl) ==
    IF Len(ln) = 0
    THEN [queue |-> queue, flasks |-> fl, error |-> "IndexError"]
    ELSE IF IsDigitChar(ln[1])
    THEN IF Len(ln) >= 3
         THEN DirectiveLoop(DigitVal(ln[1]), [ln EXCEPT ![3] = ln[Len(ln)]], queue, fl)
         ELSE DirectiveLoop(DigitVal(ln[1]), ln, queue, fl)
    ELSE IF ~bqueue_is_full(queue)
    THEN [queue |-> bqueue_enqueue(queue, ln), flasks |-> fl, error |-> "none"]
    ELSE [queue |-> queue, flasks |-> fl, error |-> "none"]

\* faulty variant of the line's body: a chemical is enqueued without the
\* is_full test
fill_flasks_line_always_enqueue(ln, queue, fl) ==
    IF Len(ln) = 0
    THEN [queue |-> queue, flasks |-> fl, error |-> "IndexError"]
    ELSE IF IsDigitChar(ln[1])
    THEN DirectiveLoop(DigitVal(ln[1]), ln, queue, fl)
    ELSE [queue |-> bqueue_enqueue(queue, ln), flasks |-> fl, error |-> "none"]

\* the body of "for line in chemicals_data" for one line
fill_flasks_line(ln, queue, fl) ==
    IF Len(ln) = 0
    THEN [queue |-> queue, flasks |-> fl, error |-> "IndexError"]
    ELSE IF IsDigitChar(ln[1])
    THEN DirectiveLoop(DigitVal(ln[1]), ln, queue, fl)
    ELSE IF ~bqueue_is_full(queue)
    THEN [queue |-> bqueue_enqueue(queue, ln), flasks |-> fl, error |-> "none"]
    ELSE [queue |-> queue, flasks |-> fl, error |-> "none"]

\* a directive line "<count>F<flask>"
Directive(count, flask) == <<DigitChars[count + 1], "F", DigitChars[flask + 1]>>

DirectiveLines == {Directive(c, f) : c \in 0..MAX_CAPACITY, f \in 0..(NumFlasks + 1)}

\* lines no well-formed script holds: a blank line, a lone count, the count without
\* a flask, and the directive written out in words
TwoToOne == <<"2", " ", "t", "o", " ", "1">>

OddLines == {<<>>, <<"2">>, <<"1", "F">>, TwoToOne}

ScriptLines == Chemicals \cup DirectiveLines \cup OddLines

ManyScriptLines == ManyChemicals \cup DirectiveLines

----------------------------------------------------------------------------
(* The input checks and the transfer *)

MsgNone == ""

MsgSource == "Cannot pour from that flask. Try again."

MsgDestination == "Cannot pour into that flask. Try again."

MsgSameFlask == "Cannot pour into the same flask. Try again."

MsgInvalid == "Invalid input, please try again!"

\* faulty variant of check_flask_condition: the sealed test is missing
check_flask_condition_no_seal(fl, input, flask_type, msg) ==
    LET pos == ListIndex(IntOf(input) - 1, Len(fl))
    IN  IF flask_type = "source"
        THEN IF bstack_is_empty(fl[pos])
             THEN [ok |-> FALSE, message |-> MsgSource, flasks |-> fl]
             ELSE [ok |-> TRUE, message |-> msg, flasks |-> fl]
        ELSE IF bstack_is_full(fl[pos])
             THEN [ok |-> FALSE, message |-> MsgDestination, flasks |-> fl]
             ELSE [ok |-> TRUE, message |-> msg, flasks |-> fl]

\* faulty variant of check_flask_condition: a destination is tested as a source is
check_flask_condition_as_source(fl, input, flask_type, msg) ==
    LET pos == ListIndex(IntOf(input) - 1, Len(fl))
        s == is_sealed(fl[pos])
        said == IF flask_type = "source" THEN MsgSource ELSE MsgDestination
    IN  IF bstack_is_empty(fl[pos]) \/ s.result
        THEN [ok |-> FALSE, message |-> said, flasks |-> fl]
        ELSE [ok |-> TRUE, message |-> msg, flasks |-> fl]

\* faulty variant of check_flask_condition: a source is tested with is_sealed
\* alone, an empty flask passes
check_flask_condition_no_empty(fl, input, flask_type, msg) ==
    LET pos == ListIndex(IntOf(input) - 1, Len(fl))
        s == is_sealed(fl[pos])
    IN  IF flask_type = "source"
        THEN IF s.result
             THEN [ok |-> FALSE, message |-> MsgSource, flasks |-> fl]
             ELSE [ok |-> TRUE, message |-> msg, flasks |-> fl]
        ELSE IF bstack_is_full(fl[pos]) \/ s.result
             THEN [ok |-> FALSE, message |-> MsgDestination, flasks |-> fl]
             ELSE [ok |-> TRUE, message |-> msg, flasks |-> fl]

(* check_flask_condition: ok is the value returned, message what it prints *)
(* on row 5 (msg is what the row showed before), flasks the flasks as the  *)
(* call leaves them.  "or" evaluates is_sealed only when the first test is *)
(* false.                                                                  *)
check_flask_condition(fl, input, flask_type, msg) ==
    LET pos == ListIndex(IntOf(input) - 1, Len(fl))
        s == is_sealed(fl[pos])
    IN  IF flask_type = "source"
        THEN IF bstack_is_empty(fl[pos])
             THEN [ok |-> FALSE, message |-> MsgSource, flasks |-> fl]
             ELSE IF s.result
             THEN [ok |-> FALSE, message |-> MsgSource,
                   flasks |-> [fl EXCEPT ![pos] = s.flask]]
             ELSE [ok |-> TRUE, message |-> msg,
                   flasks |-> [fl EXCEPT ![pos] = s.flask]]
        ELSE IF bstack_is_full(fl[pos])
             THEN [ok |-> FALSE, message |-> MsgDestination, flasks |-> fl]
             ELSE IF s.result
             THEN [ok |-> FALSE, message |-> MsgDestination,
                   flasks |-> [fl EXCEPT ![pos] = s.flask]]
             ELSE [ok |-> TRUE, message |-> msg,
                   flasks |-> [fl EXCEPT ![pos] = s.flask]]

\* [str(i+1) for i in range(len(flasks))] + ['exit']
valid_inputs(fl) == {StrOf(i) : i \in 1..Len(fl)} \cup {EXIT}

\* faulty variant of check_input_validity: a flask number is accepted without
\* check_flask_condition
check_input_validity_no_flask_check(input, fl, flask_type, msg) ==
    LET lowered == IF ~IsDigit(input) THEN Lower(input) ELSE input
    IN  IF lowered \in valid_inputs(fl)
        THEN [valid_input |-> TRUE, error_message |-> MsgNone,
              message |-> IF IsDigit(lowered) THEN MsgNone ELSE msg, flasks |-> fl]
        ELSE [valid_input |-> FALSE, error_message |-> MsgInvalid,
              message |-> msg, flasks |-> fl]

(* check_input_validity: valid_input and error_message are the values      *)
(* returned; message is row 5 after the call.  A digit input that names a  *)
(* flask clears row 5 before check_flask_condition runs.                   *)
check_input_validity(input, fl, flask_type, msg) ==
    LET lowered == IF ~IsDigit(input) THEN Lower(input) ELSE input
    IN  IF lowered \in valid_inputs(fl)
        THEN IF IsDigit(lowered)
             THEN LET c == check_flask_condition(fl, lowered, flask_type, MsgNone)
                  IN  [valid_input |-> c.ok, error_message |-> MsgNone,
                       message |-> c.message, flasks |-> c.flasks]
             ELSE [valid_input |-> TRUE, error_message |-> MsgNone,
                   message |-> msg, flasks |-> fl]
        ELSE [valid_input |-> FALSE, error_message |-> MsgInvalid,
              message |-> msg, flasks |-> fl]

\* faulty variant of transfer_between_flasks: the same-flask test is missing
transfer_without_same_test(fl, source_num, destination_num, msg) ==
    LET spos == ListIndex(source_num - 1, Len(fl))
        dpos == ListIndex(destination_num - 1, Len(fl))
        p == bstack_pop(fl[spos])
        popped == [fl EXCEPT ![spos] = p.flask]
        q == bstack_push(popped[dpos], p.unit)
    IN  IF ~p.ok
        THEN [status |-> FALSE, error |-> "EmptyContainer", message |-> msg, flasks |-> fl]
        ELSE IF ~q.ok
        THEN [status |-> FALSE, error |-> "CapacityExceeded", message |-> msg,
              flasks |-> popped]
        ELSE [status |-> TRUE, error |-> "none", message |-> msg,
              flasks |-> [popped EXCEPT ![dpos] = q.flask]]

\* faulty variant of transfer_between_flasks: source and destination exchanged
transfer_exchanged(fl, source_num, destination_num, msg) ==
    LET spos == ListIndex(destination_num - 1, Len(fl))
        dpos == ListIndex(source_num - 1, Len(fl))
        p == bstack_pop(fl[spos])
        popped == [fl EXCEPT ![spos] = p.flask]
        q == bstack_push(popped[dpos], p.unit)
    IN  IF source_num = destination_num
        THEN [status |-> FALSE, error |-> "none", message |-> MsgSameFlask, flasks |-> fl]
        ELSE IF ~p.ok
        THEN [status |-> FALSE, error |-> "EmptyContainer", message |-> msg, flasks |-> fl]
        ELSE IF ~q.ok
        THEN [status |-> FALSE, error |-> "CapacityExceeded", message |-> msg,
              flasks |-> popped]
        ELSE [status |-> TRUE, error |-> "none", message |-> msg,
              flasks |-> [popped EXCEPT ![dpos] = q.flask]]

\* faulty variant of transfer_between_flasks: the top of the source is pushed
\* onto the destination and stays on the source
transfer_copies_top(fl, source_num, destination_num, msg) ==
    LET spos == ListIndex(source_num - 1, Len(fl))
        dpos == ListIndex(destination_num - 1, Len(fl))
        p == bstack_pop(fl[spos])
        q == bstack_push(fl[dpos], p.unit)
    IN  IF source_num = destination_num
        THEN [status |-> FALSE, error |-> "none", message |-> MsgSameFlask, flasks |-> fl]
        ELSE IF ~p.ok
        THEN [status |-> FALSE, error |-> "EmptyContainer", message |-> msg, flasks |-> fl]
        ELSE IF ~q.ok
        THEN [status |-> FALSE, error |-> "CapacityExceeded", message |-> msg,
              flasks |-> fl]
        ELSE [status |-> TRUE, error |-> "none", message |-> msg,
              flasks |-> [fl EXCEPT ![dpos] = q.flask]]

(* transfer_between_flasks: status is the value returned; error names the  *)
(* exception of a failing pop or push, which leaves the flasks as they are *)
(* at that point.                                                          *)
transfer_between_flasks(fl, source_num, destination_num, msg) ==
    LET spos == ListIndex(source_num - 1, Len(fl))
        dpos == ListIndex(destination_num - 1, Len(fl))
    IN  IF source_num = destination_num
        THEN [status |-> FALSE, error |-> "none", message |-> MsgSameFlask, flasks |-> fl]
        ELSE LET p == bstack_pop(fl[spos])
                 popped == [fl EXCEPT ![spos] = p.flask]
                 q == bstack_push(popped[dpos], p.unit)
             IN  IF ~p.ok
                 THEN [status |-> FALSE, error |-> "EmptyContainer",
                       message |-> msg, flasks |-> fl]
                 ELSE IF ~q.ok
                 THEN [status |-> FALSE, error |-> "CapacityExceeded",
                       message |-> msg, flasks |-> popped]
                 ELSE [status |-> TRUE, error |-> "none", message |-> msg,
                       flasks |-> [popped EXCEPT ![dpos] = q.flask]]

(* display_flasks reads every flask through flask_to_printable_list, which *)
(* calls obtain_flask_elements and is_sealed; what it prints is not        *)
(* modelled, the flasks it leaves are.                                     *)
display_flasks(fl) ==
    [i \in 1..Len(fl) |-> is_sealed(obtain_flask_elements(fl[i]).flask).flask]

----------------------------------------------------------------------------
(* The program: create_flasks, fill_flasks line by line, then main's loop  *)

NoStatus == "unset"

create_flasks(num) == [i \in 1..num |-> <<>>]

Init ==
    /\ flasks = create_flasks(NumFlasks)
    /\ chemicals_queue = <<>>
    /\ nlines = 0
    /\ line = <<>>
    /\ pc = "fill"
    /\ error = "none"
    /\ user_input = <<>>
    /\ source = <<>>
    /\ destination = <<>>
    /\ transfer_status = NoStatus
    /\ message = MsgNone
    /\ result = [fn |-> "none"]

\* fill_flasks consumes the next line of chemicals_data; an exception ends the
\* program and leaves of fill_flasks only the line that raised it
FillLine(lines, limit) ==
    /\ pc = "fill"
    /\ nlines < limit
    /\ \E ln \in lines :
       \E r \in {fill_flasks_line(ln, chemicals_queue, flasks)} :
         /\ line' = ln
         /\ chemicals_queue' = IF r.error = "none" THEN r.queue ELSE <<>>
         /\ nlines' = IF r.error = "none" THEN nlines + 1 ELSE 0
         /\ flasks' = r.flasks
         /\ error' = r.error
         /\ pc' = IF r.error = "none" THEN "fill" ELSE "crashed"
    /\ UNCHANGED <<user_input, source, destination, transfer_status, message, result>>

\* chemicals_data is exhausted: fill_flasks returns and its locals are gone
FillDone ==
    /\ pc = "fill"
    /\ pc' = "loop"
    /\ chemicals_queue' = <<>>
    /\ line' = <<>>
    /\ nlines' = 0
    /\ UNCHANGED <<flasks, error, user_input, source, destination,
                   transfer_status, message, result>>

\* what the player may type (after strip()): the flask numbers, a number that
\* names no flask, the exit word in both cases, another word
Inputs ==
    {StrOf(i) : i \in 0..NumFlasks} \cup {EXIT, <<"E", "X", "I", "T">>, <<"q">>}

\* faulty variant of main's loop: "while source != 'exit' and destination !=
\* 'exit'", without the is_game_won test
MainLoop_no_win_test ==
    /\ pc = "loop"
    /\ \E w \in {is_game_won(flasks)} :
         IF source # EXIT /\ destination # EXIT
         THEN IF source # <<>> /\ destination # <<>> /\ transfer_status = NoStatus
              THEN /\ pc' = "crashed"
                   /\ error' = "UnboundLocalError"
                   /\ flasks' = flasks
              ELSE IF source # <<>> /\ destination # <<>> /\ transfer_status = "True"
                      /\ ~(IsDigit(source) /\ IsDigit(destination))
              THEN /\ pc' = "crashed"
                   /\ error' = "ValueError"
                   /\ flasks' = flasks
              ELSE /\ pc' = "source"
                   /\ error' = error
                   /\ flasks' = display_flasks(flasks)
         ELSE IF w.result
              THEN IF IsDigit(source) /\ IsDigit(destination)
                   THEN /\ pc' = "won"
                        /\ error' = error
                        /\ flasks' = display_flasks(w.flasks)
                   ELSE /\ pc' = "crashed"
                        /\ error' = "ValueError"
                        /\ flasks' = w.flasks
              ELSE /\ pc' = "quit"
                   /\ error' = error
                   /\ flasks' = w.flasks
    /\ UNCHANGED <<chemicals_queue, nlines, line, user_input, source, destination,
                   transfer_status, message, result>>

(* main, from the while test to the next input(): the loop test, the       *)
(* prompts and display_flasks; or, when the loop ends, the final report.   *)
(* "source and destination and transfer_status" reads transfer_status only *)
(* when both strings are non-empty.                                        *)
MainLoop ==
    /\ pc = "loop"
    /\ \E w \in {is_game_won(flasks)} :
         IF ~w.result /\ source # EXIT /\ destination # EXIT
         THEN IF source # <<>> /\ destination # <<>> /\ transfer_status = NoStatus
              THEN /\ pc' = "crashed"
                   /\ error' = "UnboundLocalError"
                   /\ flasks' = w.flasks
              ELSE IF source # <<>> /\ destination # <<>> /\ transfer_status = "True"
                      /\ ~(IsDigit(source) /\ IsDigit(destination))
              THEN /\ pc' = "crashed"
                   /\ error' = "ValueError"
                   /\ flasks' = w.flasks
              ELSE /\ pc' = "source"
                   /\ error' = error
                   /\ flasks' = display_flasks(w.flasks)
         ELSE \E v \in {is_game_won(w.flasks)} :
                IF v.result
                THEN IF IsDigit(source) /\ IsDigit(destination)
                     THEN /\ pc' = "won"
                          /\ error' = error
                          /\ flasks' = display_flasks(v.flasks)
                     ELSE /\ pc' = "crashed"
                          /\ error' = "ValueError"
                          /\ flasks' = v.flasks
                ELSE /\ pc' = "quit"
                     /\ error' = error
                     /\ flasks' = v.flasks
    /\ UNCHANGED <<chemicals_queue, nlines, line, user_input, source, destination,
                   transfer_status, message, result>>

(* obtain_user_input, the source: input() and input_loop's check.  A       *)
(* rejected input leaves the program at the same input(); "exit" returns   *)
(* ("exit", "exit") to main, which performs no transfer.                   *)
SourceInput ==
    /\ pc = "source"
    /\ \E typed \in Inputs :
       \E c \in {check_input_validity(typed, flasks, "source", message)} :
         IF ~c.valid_input
         THEN /\ pc' = "source"
              /\ user_input' = typed
              /\ message' = IF c.error_message # MsgNone
                            THEN c.error_message ELSE c.message
              /\ flasks' = c.flasks
              /\ UNCHANGED <<source, destination>>
         ELSE IF Lower(typed) = EXIT
         THEN /\ pc' = "loop"
              /\ user_input' = <<>>
              /\ source' = EXIT
              /\ destination' = EXIT
              /\ message' = MsgNone
              /\ flasks' = c.flasks
         ELSE /\ pc' = "dest_first"
              /\ user_input' = <<>>
              /\ source' = Lower(typed)
              /\ message' = c.message
              /\ flasks' = c.flasks
              /\ UNCHANGED destination
    /\ UNCHANGED <<chemicals_queue, nlines, line, error, transfer_status, result>>

(* obtain_user_input, the destination, and main up to the end of the loop  *)
(* body.  The first destination typed is lower-cased before the check, one *)
(* typed after a rejection is not.  An accepted destination returns to     *)
(* main, which calls transfer_between_flasks when both strings are digits. *)
DestInput ==
    /\ pc \in {"dest_first", "dest_retry"}
    /\ \E raw \in Inputs :
       \E typed \in {IF pc = "dest_first" THEN Lower(raw) ELSE raw} :
       \E c \in {check_input_validity(typed, flasks, "destination", message)} :
         IF ~c.valid_input
         THEN /\ pc' = "dest_retry"
              /\ user_input' = typed
              /\ message' = IF c.error_message # MsgNone
                            THEN c.error_message ELSE c.message
              /\ flasks' = c.flasks
              /\ UNCHANGED <<destination, transfer_status, error>>
         ELSE IF IsDigit(source) /\ IsDigit(typed)
         THEN \E t \in {transfer_between_flasks(c.flasks, IntOf(source),
                                                IntOf(typed), MsgNone)} :
                /\ pc' = IF t.error = "none" THEN "loop" ELSE "crashed"
                /\ user_input' = <<>>
                /\ destination' = typed
                /\ transfer_status' = IF t.error # "none" THEN transfer_status
                                      ELSE IF t.status THEN "True" ELSE "False"
                /\ error' = t.error
                /\ message' = t.message
                /\ flasks' = t.flasks
         ELSE /\ pc' = "loop"
              /\ user_input' = <<>>
              /\ destination' = typed
              /\ message' = MsgNone
              /\ flasks' = c.flasks
              /\ UNCHANGED <<transfer_status, error>>
    /\ UNCHANGED <<chemicals_queue, nlines, line, source, result>>

Next ==
    \/ FillLine(ScriptLines, MaxLines)
    \/ FillDone
    \/ MainLoop
    \/ SourceInput
    \/ DestInput

Spec == Init /\ [][Next]_vars

\* the setup interpreter alone, over four chemicals
NextFill ==
    \/ FillLine(ManyScriptLines, MaxManyLines)
    \/ FillDone

SpecFill == Init /\ [][NextFill]_vars

----------------------------------------------------------------------------
(* The functions called on their own, on any flasks of at most MaxUnits    *)
(* units: one call per behaviour, its arguments and value kept in result.  *)

FlaskContents == UNION {[1..n -> Chemicals] : n \in 0..MAX_CAPACITY}

RECURSIVE TotalUnits(_)
TotalUnits(fl) == IF Len(fl) = 0 THEN 0 ELSE Len(Head(fl)) + TotalUnits(Tail(fl))

InitUnit ==
    /\ flasks \in {fl \in [1..UnitFlasks -> FlaskContents] : TotalUnits(fl) <= MaxUnits}
    /\ chemicals_queue = <<>>
    /\ nlines = 0
    /\ line = <<>>
    /\ pc = "call"
    /\ error = "none"
    /\ user_input = <<>>
    /\ source = <<>>
    /\ destination = <<>>
    /\ transfer_status = NoStatus
    /\ message = MsgNone
    /\ result = [fn |-> "none"]

CallIsSealed ==
    /\ pc = "call"
    /\ \E i \in 1..Len(flasks) :
       \E r \in {is_sealed(flasks[i])} :
         /\ result' = [fn |-> "is_sealed", flasks |-> flasks, flask |-> flasks[i],
                       value |-> r.result]
         /\ flasks' = [flasks EXCEPT ![i] = r.flask]
    /\ pc' = "returned"
    /\ UNCHANGED <<chemicals_queue, nlines, line, error, user_input, source,
                   destination, transfer_status, message>>

CallIsGameWon ==
    /\ pc = "call"
    /\ \E r \in {is_game_won(flasks)} :
         /\ result' = [fn |-> "is_game_won", flasks |-> flasks, value |-> r.result]
         /\ flasks' = r.flasks
    /\ pc' = "returned"
    /\ UNCHANGED <<chemicals_queue, nlines, line, error, user_input, source,
                   destination, transfer_status, message>>

CallTransfer ==
    /\ pc = "call"
    /\ \E source_num \in 1..Len(flasks), destination_num \in 1..Len(flasks) :
       \E t \in {transfer_between_flasks(flasks, source_num, destination_num, message)} :
         /\ result' = [fn |-> "transfer_between_flasks", flasks |-> flasks,
                       source_num |-> source_num, destination_num |-> destination_num,
                       value |-> t.status]
         /\ flasks' = t.flasks
         /\ error' = t.error
         /\ message' = t.message
    /\ pc' = "returned"
    /\ UNCHANGED <<chemicals_queue, nlines, line, user_input, source,
                   destination, transfer_status>>

\* obtain_flask_elements(flasks[i]), and a second call on the same flask
CallObtain ==
    /\ \E i \in 1..Len(flasks) :
       \E r \in {obtain_flask_elements(flasks[i])} :
         /\ \/ /\ pc = "call"
               /\ result' = [fn |-> "obtain_flask_elements", flasks |-> flasks,
                             index |-> i, calls |-> 1, value |-> r.elements,
                             previous |-> <<>>]
            \/ /\ pc = "returned"
               /\ result.fn = "obtain_flask_elements"
               /\ result.calls = 1
               /\ result.index = i
               /\ result' = [result EXCEPT !.calls = 2, !.value = r.elements,
                                           !.previous = result.value]
         /\ flasks' = [flasks EXCEPT ![i] = r.flask]
    /\ pc' = "returned"
    /\ UNCHANGED <<chemicals_queue, nlines, line, error, user_input, source,
                   destination, transfer_status, message>>

\* check_flask_condition(flasks, str(i), flask_type)
CallCheckFlaskCondition ==
    /\ pc = "call"
    /\ \E i \in 1..Len(flasks), flask_type \in {"source", "destination"} :
       \E c \in {check_flask_condition(flasks, StrOf(i), flask_type, message)} :
         /\ result' = [fn |-> "check_flask_condition", flasks |-> flasks,
                       index |-> i, flask_type |-> flask_type, value |-> c.ok]
         /\ flasks' = c.flasks
         /\ message' = c.message
    /\ pc' = "returned"
    /\ UNCHANGED <<chemicals_queue, nlines, line, error, user_input, source,
                   destination, transfer_status>>

NextUnit ==
    \/ CallIsSealed
    \/ CallIsGameWon
    \/ CallTransfer
    \/ CallObtain
    \/ CallCheckFlaskCondition

SpecUnit == InitUnit /\ [][NextUnit]_vars

----------------------------------------------------------------------------
(* The rules the properties are stated with, written from the game's rules *)
(* and not from the code above.                                            *)

ThreeEqual(f) == Len(f) = 3 /\ \A i \in 1..Len(f) : f[i] = f[1]

CanPourFrom(f) == Len(f) > 0 /\ ~ThreeEqual(f)

CanPourInto(f) == Len(f) < 4 /\ ~ThreeEqual(f)

LegalMove(fl, s, d) == s # d /\ CanPourFrom(fl[s]) /\ CanPourInto(fl[d])

\* fl after the top unit of flask s has become the top unit of flask d
Moved(fl, s, d) ==
    [i \in 1..Len(fl) |->
        IF i = s THEN SubSeq(fl[s], 1, Len(fl[s]) - 1)
        ELSE IF i = d THEN fl[d] \o <<fl[s][Len(fl[s])]>>
        ELSE fl[i]]

FlaskNumbers == 1..NumFlasks

\* the number of units of chemical c in all flasks together
RECURSIVE UnitsOf(_, _)
UnitsOf(fl, c) ==
    IF Len(fl) = 0 THEN 0 ELSE Count(Head(fl), c) + UnitsOf(Tail(fl), c)

\* the multiset of the units in all flasks
AllUnits(fl) == [c \in ManyChemicals |-> UnitsOf(fl, c)]

\* every flask is empty or holds three equal units
Solved(fl) == \A i \in 1..Len(fl) : Len(fl[i]) = 0 \/ ThreeEqual(fl[i])

\* the player has just typed flask number s at the source prompt
TypedAtSource(s) ==
    /\ pc = "source"
    /\ \/ pc' = "source" /\ user_input' = StrOf(s)
       \/ pc' = "dest_first" /\ source' = StrOf(s)

\* the player has just typed flask number d at the destination prompt
TypedAtDest(d) ==
    /\ pc \in {"dest_first", "dest_retry"}
    /\ \/ pc' = "dest_retry" /\ user_input' = StrOf(d)
       \/ pc' \in {"loop", "crashed"} /\ destination' = StrOf(d)

----------------------------------------------------------------------------
(* C1: is_sealed returns true exactly for a flask of 3 units that are all  *)
(* equal; the empty flask, [A,A], [A,A,B] and [A,A,A,A] are not sealed.    *)
C1_SealedIffThreeEqual ==
    /\ result.fn = "is_sealed" => (result.value <=> ThreeEqual(result.flask))
    /\ ~is_sealed(<<>>).result
    /\ ~is_sealed(<<AA, AA>>).result
    /\ ~is_sealed(<<AA, AA, BB>>).result
    /\ ~is_sealed(<<AA, AA, AA, AA>>).result

C1_Witness ==
    /\ pc = "returned"
    /\ result.fn = "is_sealed"
    /\ result.flask = <<AA, AA, AA>>
    /\ result.value = TRUE

(* C2: a call of transfer_between_flasks with a pair (s, d) that is not a  *)
(* legal move leaves every flask unchanged.                                *)
C2_IllegalTransferChangesNothing ==
    (/\ result.fn = "transfer_between_flasks"
     /\ ~LegalMove(result.flasks, result.source_num, result.destination_num))
        => flasks = result.flasks

(* C3 as stated: in a whole run, setup included, a flask that is sealed    *)
(* keeps its contents in every later state.                                *)
C3_SealedNeverChanges ==
    [][\A i \in FlaskNumbers :
          is_sealed(flasks[i]).result => flasks'[i] = flasks[i]]_vars

(* C3 as amended: once the setup script has been executed, a flask that is *)
(* sealed keeps its contents in every later state, so it is never again    *)
(* the source or the destination of a performed transfer.                  *)
C3_SealedNeverChangesInPlay ==
    [][\A i \in FlaskNumbers :
          (pc # "fill" /\ is_sealed(flasks[i]).result) => flasks'[i] = flasks[i]]_vars

\* a pour into a sealed flask has just been refused, after an earlier transfer
C3_Witness ==
    /\ pc = "dest_retry"
    /\ transfer_status = "True"
    /\ message = MsgDestination
    /\ \E i \in FlaskNumbers : user_input = StrOf(i) /\ ThreeEqual(flasks[i])

(* C4: a move request (s, d) is accepted, and moves the top unit of s onto *)
(* d, if and only if s # d, the source is neither empty nor sealed and the *)
(* destination is neither full nor sealed, whatever the chemicals are.     *)
C4_AcceptedIffLegal ==
    [][/\ \A s \in FlaskNumbers :
            TypedAtSource(s) =>
                /\ pc' = "dest_first" <=> CanPourFrom(flasks[s])
                /\ flasks' = flasks
       /\ \A d \in FlaskNumbers :
            TypedAtDest(d) =>
                LET s == IntOf(source)
                    accepted == /\ pc' = "loop"
                                /\ transfer_status' = "True"
                                /\ flasks' = Moved(flasks, s, d)
                IN  /\ CanPourFrom(flasks[s])
                    /\ accepted <=> LegalMove(flasks, s, d)
                    /\ ~accepted => flasks' = flasks]_vars

\* [A] poured onto [B]: the request (1, 2) has been accepted
C4_Witness ==
    /\ pc = "loop"
    /\ transfer_status = "True"
    /\ source = StrOf(1)
    /\ destination = StrOf(2)
    /\ flasks = <<<<>>, <<BB, AA>>>>

(* C5 as stated: a request whose destination is its source is answered     *)
(* with the same-flask message whatever the state of that flask.           *)
C5_SameFlaskWhateverState ==
    [][\A s \in FlaskNumbers :
          (TypedAtDest(s) /\ source = StrOf(s)) => message' = MsgSameFlask]_vars

(* C5 as amended: a request whose destination is its source never moves a  *)
(* unit.  A flask that is empty or sealed is refused at the source prompt  *)
(* with the source message; a flask accepted as source and typed again as  *)
(* destination is refused with the destination message when it is full,    *)
(* and with the same-flask message otherwise.                              *)
C5_SameFlaskAfterFlaskChecks ==
    [][\A s \in FlaskNumbers :
          /\ (TypedAtSource(s) /\ ~CanPourFrom(flasks[s])) =>
                /\ pc' = "source"
                /\ message' = MsgSource
                /\ flasks' = flasks
          /\ (TypedAtDest(s) /\ source = StrOf(s)) =>
                /\ flasks' = flasks
                /\ IF Len(flasks[s]) = 4
                   THEN pc' = "dest_retry" /\ message' = MsgDestination
                   ELSE /\ pc' = "loop"
                        /\ message' = MsgSameFlask
                        /\ transfer_status' = "False"]_vars

\* the request (s, s) has been answered with the same-flask message while
\* another flask is sealed
C5_Witness ==
    /\ pc = "loop"
    /\ message = MsgSameFlask
    /\ transfer_status = "False"
    /\ source = destination
    /\ \E i \in FlaskNumbers : ThreeEqual(flasks[i])

(* C6: a successful transfer from s to d removes exactly the top unit of s *)
(* and makes it the top of d; the rest of s and d keep their order, the    *)
(* sizes change by one and every other flask is unchanged.                 *)
C6_TransferMovesTopUnit ==
    (result.fn = "transfer_between_flasks" /\ result.value = TRUE) =>
        LET s == result.source_num
            d == result.destination_num
            before == result.flasks
        IN  /\ s # d
            /\ Len(before[s]) > 0
            /\ flasks = Moved(before, s, d)
            /\ Len(flasks[s]) = Len(before[s]) - 1
            /\ Len(flasks[d]) = Len(before[d]) + 1
            /\ flasks[d][Len(flasks[d])] = before[s][Len(before[s])]
            /\ \A i \in 1..Len(before) : (i # s /\ i # d) => flasks[i] = before[i]

\* [A,B] poured onto [B] beside a third flask [A,A]
C6_Witness ==
    /\ pc = "returned"
    /\ result.fn = "transfer_between_flasks"
    /\ result.value = TRUE
    /\ result.flasks = <<<<AA, BB>>, <<BB>>, <<AA, AA>>>>
    /\ flasks = <<<<AA>>, <<BB, BB>>, <<AA, AA>>>>

(* C7: in every reachable state, during setup and during play, every flask *)
(* holds between 0 and 4 units.                                            *)
C7_SizeWithinCapacity ==
    /\ Len(flasks) = NumFlasks
    /\ \A i \in 1..Len(flasks) : Len(flasks[i]) \in 0..4

\* the setup script has tried to push a fifth unit onto a flask
C7_Witness ==
    /\ pc = "crashed"
    /\ error = "CapacityExceeded"
    /\ \E i \in FlaskNumbers : Len(flasks[i]) = 4

C9_BadDirectiveFails ==
    [][(/\ pc = "fill"
        /\ pc' # "loop"
        /\ Len(line') >= 3
        /\ IsDigitChar(line'[1])
        /\ DigitVal(line'[1]) >= 1
        /\ IsDigitChar(line'[3]))
       => /\ DigitVal(line'[3]) \notin FlaskNumbers =>
                (pc' = "crashed" /\ flasks' = flasks)
          /\ Len(chemicals_queue) < DigitVal(line'[1]) => pc' = "crashed"]_vars

(* C10: a directive with count k and flask f, with at least k units queued *)
(* and room for them in flask f, moves the k oldest units of the queue     *)
(* onto flask f in the order dequeued and changes nothing else.            *)
C10_DirectiveMovesOldestUnits ==
    [][\A k \in 0..4, f \in FlaskNumbers :
          (/\ pc = "fill"
           /\ pc' # "loop"
           /\ line' = Directive(k, f)
           /\ Len(chemicals_queue) >= k
           /\ Len(flasks[f]) + k <= 4)
          => /\ pc' = "fill"
             /\ chemicals_queue' = SubSeq(chemicals_queue, k + 1, Len(chemicals_queue))
             /\ flasks' = [flasks EXCEPT ![f] = @ \o SubSeq(chemicals_queue, 1, k)]]_vars

\* A, B, C, D enqueued, then 2 to flask 1 and 1 to flask 2
C10_Witness ==
    /\ pc = "fill"
    /\ line = Directive(1, 2)
    /\ flasks[1] = <<AA, BB>>
    /\ flasks[2] = <<CC>>
    /\ chemicals_queue = <<DD>>

(* C11 as stated: the flask index of a directive is its third token, so    *)
(* the line "2 to 1", with two units queued and room in flask 1, moves the *)
(* two oldest units onto flask 1.                                          *)
C11_ThirdTokenIsFlask ==
    [][(/\ pc = "fill"
        /\ pc' # "loop"
        /\ line' = TwoToOne
        /\ Len(chemicals_queue) >= 2
        /\ Len(flasks[1]) + 2 <= 4)
       => /\ pc' = "fill"
          /\ flasks' = [flasks EXCEPT ![1] = @ \o SubSeq(chemicals_queue, 1, 2)]]_vars

(* C11 as amended: a line whose first character is a digit is a directive  *)
(* whose count is its first character and whose flask index is its third   *)
(* CHARACTER.  With the count's units queued: a line with no third         *)
(* character, or one that is not a digit, fails and pushes nothing, so     *)
(* "2 to 1" fails with ValueError; a third character naming a flask with   *)
(* room moves the count's oldest units onto that flask.                    *)
C11_ThirdCharacterIsFlask ==
    [][(/\ pc = "fill"
        /\ pc' # "loop"
        /\ Len(line') > 0
        /\ IsDigitChar(line'[1])
        /\ DigitVal(line'[1]) >= 1
        /\ Len(chemicals_queue) >= DigitVal(line'[1]))
       => LET k == DigitVal(line'[1])
          IN  /\ Len(line') < 3 =>
                    (pc' = "crashed" /\ error' = "IndexError" /\ flasks' = flasks)
              /\ (Len(line') >= 3 /\ ~IsDigitChar(line'[3])) =>
                    (pc' = "crashed" /\ error' = "ValueError" /\ flasks' = flasks)
              /\ (/\ Len(line') >= 3
                  /\ IsDigitChar(line'[3])
                  /\ DigitVal(line'[3]) \in FlaskNumbers
                  /\ Len(flasks[DigitVal(line'[3])]) + k <= 4)
                 => /\ pc' = "fill"
                    /\ chemicals_queue' =
                           SubSeq(chemicals_queue, k + 1, Len(chemicals_queue))
                    /\ flasks' = [flasks EXCEPT ![DigitVal(line'[3])] =
                                      @ \o SubSeq(chemicals_queue, 1, k)]]_vars

\* the line "2 to 1" has ended the setup at int('t')
C11_Witness ==
    /\ pc = "crashed"
    /\ error = "ValueError"
    /\ line = TwoToOne

(* C12: during setup the queue never holds more than 4 units; a chemical   *)
(* that arrives while it holds 4 is dropped without error: the queue and   *)
(* every flask are unchanged and the setup goes on with the next line.     *)
C12_FullQueueDropsChemical ==
    /\ [](Len(chemicals_queue) <= 4)
    /\ [][(/\ pc = "fill"
           /\ pc' # "loop"
           /\ Len(chemicals_queue) = 4
           /\ line' \in ManyChemicals)
          => /\ pc' = "fill"
             /\ error' = "none"
             /\ nlines' = nlines + 1
             /\ chemicals_queue' = chemicals_queue
             /\ flasks' = flasks]_vars

\* A, B, C, D queued and a fifth line, A, processed: it is not at the back of
\* the queue
C12_Witness ==
    /\ pc = "fill"
    /\ nlines = 5
    /\ line = AA
    /\ chemicals_queue = <<AA, BB, CC, DD>>
    /\ \A i \in FlaskNumbers : flasks[i] = <<>>

(* C13: obtain_flask_elements returns the units of the flask bottom first  *)
(* and leaves every flask as it was, so a second call returns the same     *)
(* list; is_sealed, is_game_won and the source and destination checks,     *)
(* which are built on it, change no flask.                                 *)
C13_ElementsRoundTrip ==
    /\ result.fn = "obtain_flask_elements" =>
          /\ result.value = result.flasks[result.index]
          /\ flasks = result.flasks
          /\ result.calls = 2 => result.value = result.previous
    /\ result.fn \in {"is_sealed", "is_game_won", "check_flask_condition"} =>
          flasks = result.flasks

\* two calls on the flask [A,B,B]
C13_Witness ==
    /\ pc = "returned"
    /\ result.fn = "obtain_flask_elements"
    /\ result.calls = 2
    /\ result.value = <<AA, BB, BB>>
    /\ result.previous = <<AA, BB, BB>>
    /\ flasks[result.index] = <<AA, BB, BB>>

(* C14: once the setup script has been executed, whatever the player       *)
(* types, transfer_between_flasks reaches its pop and push only with a     *)
(* source that is neither empty nor sealed and a destination that is       *)
(* neither full nor sealed; no pop of an empty flask and no push onto a    *)
(* full flask ends the program.                                            *)
C14_TransferNeverFails ==
    [][/\ pc # "fill" => error' \notin {"EmptyContainer", "CapacityExceeded"}
       /\ \A d \in FlaskNumbers :
            (/\ TypedAtDest(d)
             /\ pc' \in {"loop", "crashed"}
             /\ IntOf(source) # d)
            => /\ CanPourFrom(flasks[IntOf(source)])
               /\ CanPourInto(flasks[d])
               /\ pc' = "loop"
               /\ error' = "none"
               /\ flasks' = Moved(flasks, IntOf(source), d)]_vars

\* the only unit of flask 1 has been poured onto the three units of flask 2
C14_Witness ==
    /\ pc = "loop"
    /\ transfer_status = "True"
    /\ source = StrOf(1)
    /\ destination = StrOf(2)
    /\ flasks[1] = <<>>
    /\ Len(flasks[2]) = 4

(* C15: the loop tests the win condition after every move; from a solved   *)
(* state on it asks for no move and performs no transfer, so the flasks of *)
(* the first solved state are the flasks the session ends with.            *)
C15_SolvedStateIsFinal ==
    /\ []((pc # "fill" /\ Solved(flasks)) => pc \in {"loop", "won", "crashed"})
    /\ [][/\ (pc # "fill" /\ Solved(flasks)) =>
                 (flasks' = flasks /\ pc' \in {"won", "crashed"})
          /\ (pc = "loop" /\ pc' = "won") => Solved(flasks)]_vars

\* [A,A] and [A]: the unit of flask 2 has been poured onto flask 1 and the
\* program has reported the win
C15_Witness ==
    /\ pc = "won"
    /\ transfer_status = "True"
    /\ source = StrOf(2)
    /\ destination = StrOf(1)
    /\ flasks = <<<<AA, AA, AA>>, <<>>>>

(* C16: when the player enters the exit word, as the source or as the      *)
(* destination after an accepted source, the round performs no transfer,   *)
(* every flask keeps its contents and the loop ends without another        *)
(* prompt.  The exit word is what check_input_validity accepts as 'exit'.  *)
C16_ExitEndsLoop ==
    [][/\ (/\ pc \in {"source", "dest_first", "dest_retry"}
           /\ pc' = "loop"
           /\ (Lower(source') = EXIT \/ Lower(destination') = EXIT))
          => (flasks' = flasks /\ transfer_status' = transfer_status)
       /\ (pc = "loop" /\ (Lower(source) = EXIT \/ Lower(destination) = EXIT))
          => (pc' = "quit" /\ flasks' = flasks)]_vars

(* C17: once the setup script has been executed, no step of play, whether  *)
(* a request is accepted or rejected, changes the multiset of the units in *)
(* all flasks or the number of flasks: both stay what they were at the end *)
(* of initialisation.                                                      *)
C17_PlayConservesUnits ==
    [][pc # "fill" =>
          /\ Len(flasks') = Len(flasks)
          /\ AllUnits(flasks') = AllUnits(flasks)
          /\ TotalUnits(flasks') = TotalUnits(flasks)]_vars

\* a transfer has been performed and then the emptied flask 1 refused as source
C17_Witness ==
    /\ pc = "source"
    /\ transfer_status = "True"
    /\ message = MsgSource
    /\ user_input = StrOf(1)
    /\ flasks[1] = <<>>
    /\ AllUnits(flasks)[AA] = 2
    /\ AllUnits(flasks)[BB] = 2

(* C18: in a state where is_game_won is true the source check fails for    *)
(* every flask, so no move request can be accepted.                        *)
C18_SolvedHasNoSource ==
    (/\ result.fn = "check_flask_condition"
     /\ result.flask_type = "source"
     /\ is_game_won(result.flasks).result)
    => /\ result.value = FALSE
       /\ message = MsgSource
       /\ result.flasks[result.index] = <<>> \/ ThreeEqual(result.flasks[result.index])

\* the empty flask of a solved arrangement has been refused as source
C18_Witness ==
    /\ pc = "returned"
    /\ result.fn = "check_flask_condition"
    /\ result.flask_type = "source"
    /\ result.index = 2
    /\ result.value = FALSE
    /\ result.flasks = <<<<AA, AA, AA>>, <<>>, <<BB, BB, BB>>>>

====
